---------------------------- MODULE Spec2Model ----------------------------
(***************************************************************************)
(* Email/Phone Hunter: the crawl loop of main() in src/app.py, its         *)
(* politeness gate (load_robots, can_fetch), the pattern matchers and the  *)
(* result assembly.  Text is a tuple of one-character strings, a URL is a  *)
(* record of the parts urlparse gives, and the web (what a fetch answers)  *)
(* is the environment: every fetch picks one of the answers listed for     *)
(* the URL.                                                                *)
(***************************************************************************)
EXTENDS Integers, Sequences, FiniteSets, TLC

(***************************************************************************)
(* Bounds of the model.                                                    *)
(***************************************************************************)
MaxPagesArg == 3
MaxDepthArg == 2
MaxClock == 1
MaxEmailLen == 5
MaxCandidateLen == 7

(***************************************************************************)
(* Characters and strings (str methods used by the code).                  *)
(***************************************************************************)
\* the characters of the model in code point order
Ascii ==
    <<" ", "(", ")", "+", "-", ".", "/", "0", "1", "2", "3", "4", "5", "6",
      "7", "8", "9", ":", "<", ">", "@", "C", "E", "J", "O", "X", "_", "b",
      "c", "d", "e", "f", "h", "i", "j", "m", "n", "o", "s", "t", "x">>

Ord(c) == CHOOSE i \in 1..Len(Ascii) : Ascii[i] = c

Digits == {"0", "1", "2", "3", "4", "5", "6", "7", "8", "9"}

\* str.lower() on one character
LowerChar(c) ==
    CASE c = "C" -> "c"
      [] c = "E" -> "e"
      [] c = "J" -> "j"
      [] c = "O" -> "o"
      [] c = "X" -> "x"
      [] OTHER -> c

lower(s) == [i \in 1..Len(s) |-> LowerChar(s[i])]

endswith(s, suf) ==
    /\ Len(suf) <= Len(s)
    /\ SubSeq(s, Len(s) - Len(suf) + 1, Len(s)) = suf

\* s < t in Python's string order (code points, shorter prefix first)
StrLess(s, t) ==
    \E i \in 1..(Len(t)) :
        /\ \A j \in 1..(i - 1) : j <= Len(s) /\ s[j] = t[j]
        /\ \/ i > Len(s)
           \/ i <= Len(s) /\ Ord(s[i]) < Ord(t[i])

\* mutant: at most one character is stripped
lstrip_once(s, cs) == IF s # <<>> /\ Head(s) \in cs THEN Tail(s) ELSE s

RECURSIVE lstrip(_, _)
lstrip(s, cs) ==
    IF s # <<>> /\ Head(s) \in cs THEN lstrip(Tail(s), cs) ELSE s

RECURSIVE rstrip(_, _)
rstrip(s, cs) ==
    IF s # <<>> /\ s[Len(s)] \in cs THEN rstrip(SubSeq(s, 1, Len(s) - 1), cs)
    ELSE s

strip(s, cs) == rstrip(lstrip(s, cs), cs)

Whitespace == {" "}
Punctuation == {".", ",", ";", ":", "!", "?", "\"", "'", "(", ")", "[", "]",
                "{", "}", "<", ">"}

\* mutant: the last "@" is taken
LastAt(s) ==
    IF \E i \in 1..Len(s) : s[i] = "@"
    THEN CHOOSE i \in 1..Len(s) :
            s[i] = "@" /\ \A j \in (i + 1)..Len(s) : s[j] # "@"
    ELSE 0

\* index of the first "@" of s, 0 when there is none
FirstAt(s) ==
    IF \E i \in 1..Len(s) : s[i] = "@"
    THEN CHOOSE i \in 1..Len(s) : s[i] = "@" /\ \A j \in 1..(i - 1) : s[j] # "@"
    ELSE 0

\* email.split("@", 1)[1]
AfterAt(s) == SubSeq(s, FirstAt(s) + 1, Len(s))

\* EMAIL_RE (line 20): the strings it can match, whatever stands around them
Letters ==
    {"C", "E", "J", "O", "X", "a", "b", "c", "d", "e", "f", "h", "i", "j", "l",
     "m", "n", "o", "p", "r", "s", "t", "u", "x"}
LocalChars == Letters \cup Digits \cup {".", "_", "%", "+", "-"}
HostChars == Letters \cup Digits \cup {".", "-"}

EmailReMatch(x) ==
    \E i \in 2..Len(x) :
        /\ x[i] = "@"
        /\ \A j \in 1..(i - 1) : x[j] \in LocalChars
        /\ \E k \in (i + 2)..(Len(x) - 2) :
              /\ x[k] = "."
              /\ \A j \in (i + 1)..(k - 1) : x[j] \in HostChars
              /\ \A j \in (k + 1)..Len(x) : x[j] \in Letters

normalize_email(e) == lower(strip(strip(e, Whitespace), Punctuation))

domain_allowed(host, allowed_suffixes) ==
    \E d \in allowed_suffixes :
        lower(host) = d \/ endswith(lower(host), <<".">> \o d)

\* mutant: the suffix test forgets the dot
email_matches_allowed_nodot(email, allowed_suffixes) ==
    IF FirstAt(email) = 0 THEN FALSE
    ELSE LET dom == lower(AfterAt(email))
         IN  \E d \in allowed_suffixes : dom = d \/ endswith(dom, d)

email_matches_allowed(email, allowed_suffixes) ==
    IF FirstAt(email) = 0 THEN FALSE
    ELSE LET dom == lower(AfterAt(email))
         IN  \E d \in allowed_suffixes : dom = d \/ endswith(dom, <<".">> \o d)


(***************************************************************************)
(* The strings of the model: hosts, e-mail candidates (what EMAIL_RE       *)
(* matches in a page's text) and phone candidates (what PHONE_RE matches). *)
(***************************************************************************)
EX == <<"e", "x", ".", "c", "o">>
M_EX == <<"m", ".">> \o EX
NOTEX == <<"n", "o", "t">> \o EX
EX_PORT == EX \o <<":", "8", "0">>

E_J_UP == <<"J", "@", "E", "X", ".", "C", "O">>
E_J == <<"j", "@">> \o EX
E_C_M == <<"c", "@">> \o M_EX
E_J_NOT == <<"j", "@">> \o NOTEX
E_X == <<"x", "@">> \o EX

PH_LONG == <<"+", "1", " ", "5", "5", "5", " ", "0", "1", "0", "0">>
PH_YEARS == <<"2", "0", "2", "4", "-", "2", "0", "2", "5">>
PH_SHORT == <<"5", "5", "5", "-", "0", "1", "0">>

(***************************************************************************)
(* URLs: the parts urlparse gives.  Two URL strings are equal exactly when *)
(* their parts are.                                                        *)
(***************************************************************************)
Url(scheme, netloc, path) == [scheme |-> scheme, netloc |-> netloc, path |-> path]

PATH_B == <<"/", "b">>

URL_A == Url("http", EX, <<"/">>)
URL_B == Url("http", EX, PATH_B)
URL_C == Url("http", M_EX, <<"/">>)
URL_D == Url("http", NOTEX, <<"/">>)
URL_DF == Url("http", EX, <<"/", "d">>)
URL_P == Url("http", EX_PORT, <<"/">>)
URL_F == Url("ftp", EX, <<"/", "f">>)
URL_N == Url("http", <<>>, <<"/", "x">>)
URL_MAILTO == Url("mailto", <<>>, E_X)

\* f"{p.scheme}://{p.netloc}"
Origin(u) == <<u.scheme, u.netloc>>

\* an anchor's href: absolute, relative to the page, or one urljoin rejects
AbsHref(u) == [kind |-> "abs", url |-> u]
RelHref(path) == [kind |-> "rel", path |-> path]
BadHref == [kind |-> "bad"]

\* urljoin raises ValueError on such an href ("http://[bad")
UrljoinRaises(h) == h.kind = "bad"

urljoin(base, h) ==
    IF h.kind = "abs" THEN h.url ELSE Url(base.scheme, base.netloc, h.path)

(***************************************************************************)
(* The web: what s.get(url) may answer.  "error" is a transport error      *)
(* (requests raises); otherwise a response with its status, final URL      *)
(* (after redirects), content type and body.                               *)
(***************************************************************************)
Text(id, cands, nums) == [id |-> id, cands |-> cands, nums |-> nums]
EmptyText == Text("", {}, {})

TransportError == [kind |-> "error"]

Response(status, url, ct, title, text, hrefs) ==
    [kind |-> "resp", status_code |-> status, url |-> url, ct |-> ct,
     title |-> title, text |-> text, hrefs |-> hrefs]

Web(u) ==
    CASE u = URL_A ->
           {Response(200, URL_A, "text/html; charset=utf-8", "Home",
                     Text("home", {E_J_UP, E_J_NOT}, {PH_LONG, PH_SHORT}),
                     <<RelHref(PATH_B), AbsHref(URL_C), AbsHref(URL_MAILTO),
                       AbsHref(URL_D), AbsHref(URL_F)>>),
            TransportError}
      [] u = URL_B ->
           {Response(200, URL_B, "text/html", "(PDF)",
                     Text("staff", {E_J}, {PH_LONG}),
                     <<AbsHref(URL_A), BadHref>>),
            Response(404, URL_B, "text/html", "Not found", EmptyText, <<>>)}
      [] u = URL_C ->
           {Response(200, URL_C, "application/pdf", "",
                     Text("flyer", {E_C_M, E_J}, {PH_YEARS, PH_LONG}), <<>>),
            Response(200, URL_C, "image/png", "", EmptyText, <<>>)}
      [] u = URL_D ->
           {Response(200, URL_DF, "application/xhtml+xml", "Ext",
                     Text("ext", {E_J}, {}),
                     <<RelHref(PATH_B), AbsHref(URL_P)>>),
            Response(204, URL_D, "text/html", "", EmptyText, <<>>)}
      [] u = URL_P ->
           {Response(200, URL_P, "text/html", "Port", Text("port", {}, {PH_YEARS}), <<>>)}
      [] OTHER -> {TransportError}

(***************************************************************************)
(* robots.txt: what reading origin + "/robots.txt" may come to.            *)
(*   "parsed"      the file was fetched and parsed (with its Disallow      *)
(*                 paths for the session's user agent)                     *)
(*   "http403"     HTTPError 401/403, "http404" another 4xx, "http500"     *)
(*                 any other HTTPError: all three handled inside read()    *)
(*   "exception"   read() raises (URLError, timeout, undecodable bytes)    *)
(***************************************************************************)
RobotsAnswer(kind, paths) == [kind |-> kind, disallow |-> paths]

RobotsWeb(origin) ==
    CASE origin = <<"http", EX>> ->
           {RobotsAnswer("parsed", {PATH_B}), RobotsAnswer("exception", {})}
      [] origin = <<"http", M_EX>> ->
           {RobotsAnswer("http404", {}), RobotsAnswer("http403", {})}
      [] origin = <<"http", NOTEX>> ->
           {RobotsAnswer("parsed", {}), RobotsAnswer("http500", {})}
      [] OTHER -> {RobotsAnswer("parsed", {})}

\* RobotFileParser() as constructed, and after read() with the given answer
NewRobotFileParser ==
    [disallow_all |-> FALSE, allow_all |-> FALSE, last_checked |-> FALSE,
     disallow |-> {}]

RobotsRead(answer) ==
    CASE answer.kind = "parsed" ->
           [NewRobotFileParser EXCEPT !.last_checked = TRUE,
                                      !.disallow = answer.disallow]
      [] answer.kind = "http403" -> [NewRobotFileParser EXCEPT !.disallow_all = TRUE]
      [] answer.kind = "http404" -> [NewRobotFileParser EXCEPT !.allow_all = TRUE]
      [] OTHER -> NewRobotFileParser

\* RobotFileParser.can_fetch(ua, url)
RobotsCanFetch(rp, url) ==
    IF rp.disallow_all THEN FALSE
    ELSE IF rp.allow_all THEN TRUE
    ELSE IF ~rp.last_checked THEN FALSE
    ELSE url.path \notin rp.disallow

\* mutant: a parser whose read raised is not cached
load_robots_drops_failed(origin, robots_cache, answer) ==
    IF origin \in DOMAIN robots_cache
    THEN [rp |-> robots_cache[origin], cache |-> robots_cache,
          read |-> FALSE, raised |-> FALSE]
    ELSE [rp |-> RobotsRead(answer),
          cache |-> IF answer.kind = "exception" THEN robots_cache
                    ELSE robots_cache @@ (origin :> RobotsRead(answer)),
          read |-> TRUE, raised |-> answer.kind = "exception"]

\* load_robots: the parser it returns and the cache it leaves; read tells
\* whether robots.txt was read, raised whether that read raised
load_robots(origin, robots_cache, answer) ==
    IF origin \in DOMAIN robots_cache
    THEN [rp |-> robots_cache[origin], cache |-> robots_cache,
          read |-> FALSE, raised |-> FALSE]
    ELSE [rp |-> RobotsRead(answer),
          cache |-> robots_cache @@ (origin :> RobotsRead(answer)),
          read |-> TRUE, raised |-> answer.kind = "exception"]

\* mutant: the ruleset is loaded and its answer is dropped
can_fetch_allows(robots_cache, url, honor_robots, answer) ==
    IF ~honor_robots \/ url.scheme \notin {"http", "https"} \/ url.netloc = <<>>
    THEN [ok |-> ~honor_robots, cache |-> robots_cache,
          read |-> FALSE, raised |-> FALSE]
    ELSE LET l == load_robots(Origin(url), robots_cache, answer)
         IN  [ok |-> TRUE, cache |-> l.cache, read |-> l.read, raised |-> l.raised]

\* can_fetch: ok is its result, the other fields are load_robots's
can_fetch(robots_cache, url, honor_robots, answer) ==
    IF ~honor_robots \/ url.scheme \notin {"http", "https"} \/ url.netloc = <<>>
    THEN [ok |-> ~honor_robots, cache |-> robots_cache,
          read |-> FALSE, raised |-> FALSE]
    ELSE LET l == load_robots(Origin(url), robots_cache, answer)
         IN  [ok |-> RobotsCanFetch(l.rp, url), cache |-> l.cache,
              read |-> l.read, raised |-> l.raised]

(***************************************************************************)
(* Content dispatch and extraction.                                        *)
(***************************************************************************)
is_content_html(ct) ==
    ct \in {"text/html", "text/html; charset=utf-8", "application/xhtml+xml"}

is_content_pdf(ct) == ct \in {"application/pdf", "application/x-pdf", "x/pdf"}

PDF_TITLE == "(PDF)"

\* the mailto: anchors' addresses, which handle_html appends to the text
MailtoAddrs(hrefs) ==
    {hrefs[i].url.path : i \in {j \in 1..Len(hrefs) :
        hrefs[j].kind = "abs" /\ hrefs[j].url.scheme = "mailto"}}

\* handle_html: (page_title, page_text, out_links); out_links needs every
\* href to pass urljoin (see UrljoinRaises)
handle_html(resp, depth, max_depth) ==
    [title |-> resp.title,
     text |-> Text(resp.text.id, resp.text.cands \cup MailtoAddrs(resp.hrefs),
                   resp.text.nums),
     out_links |-> IF depth < max_depth
                   THEN [i \in 1..Len(resp.hrefs) |-> urljoin(resp.url, resp.hrefs[i])]
                   ELSE <<>>]

\* handle_pdf: the extracted text, or "" when pdfminer is missing or raises
handle_pdf(resp) == {resp.text, EmptyText}

extract_emails(text, allowed) ==
    {normalize_email(m) : m \in {c \in text.cands :
        email_matches_allowed(normalize_email(c), allowed)}}

DigitCount(p) == Cardinality({i \in 1..Len(p) : p[i] \in Digits})

MIN_PHONE_DIGITS == 8

extract_phones(text) ==
    {p \in {strip(x, Whitespace) : x \in text.nums} :
        DigitCount(p) >= MIN_PHONE_DIGITS}

\* snippet_around(text, needle): the window of the text around the needle
snippet_around(text, needle) == <<text.id, needle>>

(***************************************************************************)
(* Records and the output order.                                           *)
(***************************************************************************)
NoUrl == Url("", <<>>, <<>>)
NO_HITS == <<"n", "o", "_", "h", "i", "t", "s">>

Rec(type, value, domain, url, title, text, t) ==
    [type |-> type, value |-> value, domain |-> domain, source_url |-> url,
     source_type |-> IF title = PDF_TITLE THEN "pdf" ELSE "html",
     page_title |-> title, snippet |-> snippet_around(text, value),
     first_seen |-> t]

EmailRec(email, url, title, text, t) ==
    Rec("email", email, AfterAt(email), url, title, text, t)

PhoneRec(ph, url, title, text, t) == Rec("phone", ph, <<>>, url, title, text, t)

InfoRec(t) ==
    [type |-> "info", value |-> NO_HITS, domain |-> <<>>, source_url |-> NoUrl,
     source_type |-> "", page_title |-> "", snippet |-> <<"hint", <<>>>>,
     first_seen |-> t]

TypeRank(type) ==
    CASE type = "email" -> 0
      [] type = "phone" -> 1
      [] type = "info" -> 2
      [] OTHER -> 9

\* mutant: the sort key is the type alone
KeyLess_TypeOnly(a, b) == TypeRank(a.type) < TypeRank(b.type)

\* the sort key of line 287, compared as Python compares tuples
KeyLess(a, b) ==
    \/ TypeRank(a.type) < TypeRank(b.type)
    \/ TypeRank(a.type) = TypeRank(b.type) /\ StrLess(a.value, b.value)

\* r put into the sorted rows after every row whose key is not greater
InsertRow(rows, r) ==
    LET later == {i \in 1..Len(rows) : KeyLess(r, rows[i])}
        k == IF later = {} THEN Len(rows) + 1
             ELSE CHOOSE i \in later : \A j \in later : i <= j
    IN  SubSeq(rows, 1, k - 1) \o <<r>> \o SubSeq(rows, k, Len(rows))

RECURSIVE sorted(_)
sorted(recs) ==
    IF recs = <<>> THEN <<>>
    ELSE InsertRow(sorted(SubSeq(recs, 1, Len(recs) - 1)), recs[Len(recs)])

\* the orders in which a set may be iterated
Orders(S) ==
    {o \in [1..Cardinality(S) -> S] : \A i, j \in DOMAIN o : o[i] = o[j] => i = j}

(***************************************************************************)
(* The session: main().                                                    *)
(***************************************************************************)
VARIABLES
    call,          \* a call of one of the pure functions: its input and result
    args,          \* the parsed command line
    pc,            \* "loop", "write", "done", "failed" (exit 2), "crashed"
    queue,         \* deque of (url, depth)
    seen_urls,
    pages,
    robots_cache,  \* origin -> RobotFileParser
    emails_best,   \* dict email -> record, as its items in insertion order
    results,
    now,           \* the clock now_iso() reads, in seconds
    written,       \* the rows written to the CSV file
    fetchLog,      \* history: the work items s.get was called for, in order
    robotsLoads,   \* history: the origins whose robots.txt was read, in order
    robotsRaised,  \* history: the origins whose robots.txt read raised
    hitLog,        \* history: every e-mail record built, in processing order
    last           \* history: what the last loop iteration did: its work item,
                   \* how it ended, whether s.get was called and time.sleep
                   \* followed, the response's status and content type, and
                   \* the page's out_links

vars == <<call, args, pc, queue, seen_urls, pages, robots_cache, emails_best, results,
          now, written, fetchLog, robotsLoads, robotsRaised, hitLog, last>>

\* --domains, lowercased (line 168)
allowed == {EX}

SeedLists ==
    {<<URL_A>>, <<URL_A, URL_P, URL_A>>, <<URL_F, URL_D, URL_A>>, <<URL_N, URL_C, URL_B>>}

Args ==
    [start_urls : SeedLists,
     max_pages : -1..MaxPagesArg,
     depth : -1..MaxDepthArg,
     include_pdfs : BOOLEAN,
     include_phones : BOOLEAN,
     honor : BOOLEAN,
     external_follow : BOOLEAN]

Item(url, depth) == [url |-> url, depth |-> depth]

\* mutant: the seeds start at depth 1
SeedQueue_DepthOne(start_urls) ==
    LET IsHttp(u) == u.scheme \in {"http", "https"}
        kept == SelectSeq(start_urls, IsHttp)
    IN  [i \in 1..Len(kept) |-> Item(kept[i], 1)]

\* lines 182-188: the seeds with an http(s) scheme, at depth 0
SeedQueue(start_urls) ==
    LET IsHttp(u) == u.scheme \in {"http", "https"}
        kept == SelectSeq(start_urls, IsHttp)
    IN  [i \in 1..Len(kept) |-> Item(kept[i], 0)]

Last(kind, url, depth, fetched, slept) ==
    [kind |-> kind, url |-> url, depth |-> depth, fetched |-> fetched,
     slept |-> slept, status |-> 0, ct |-> "", links |-> <<>>]

\* the same, for an iteration that got a response
LastResp(kind, url, depth, resp, links) ==
    [Last(kind, url, depth, TRUE, TRUE) EXCEPT
        !.status = resp.status_code, !.ct = resp.ct, !.links = links]

\* a call of the function fn on arg (and the allowed domains), not yet made
Call(fn, arg, doms) ==
    [fn |-> fn, arg |-> arg, allowed |-> doms, done |-> FALSE, out |-> <<>>]

NoCall == Call("none", <<>>, {})

Init ==
    /\ call = NoCall
    /\ args \in Args
    /\ pc = "loop"
    /\ queue = SeedQueue(args.start_urls)
    /\ seen_urls = {}
    /\ pages = 0
    /\ robots_cache = <<>>
    /\ emails_best = <<>>
    /\ results = <<>>
    /\ now = 0
    /\ written = <<>>
    /\ fetchLog = <<>>
    /\ robotsLoads = <<>>
    /\ robotsRaised = {}
    /\ hitLog = <<>>
    /\ last = Last("init", NoUrl, 0, FALSE, FALSE)

\* mutant: the budget test is off by one
LoopOn_OffByOne == pc = "loop" /\ queue # <<>> /\ pages <= args.max_pages

\* line 191: the loop goes on
LoopOn == pc = "loop" /\ queue # <<>> /\ pages < args.max_pages

url0 == Head(queue).url
depth == Head(queue).depth

\* line 196: the outcomes of the robots check of url0
Gate ==
    {can_fetch(robots_cache, url0, args.honor, a) : a \in RobotsWeb(Origin(url0))}

\* the history of a robots check
GateHistory(g) ==
    /\ robotsLoads' = IF g.read THEN Append(robotsLoads, Origin(url0)) ELSE robotsLoads
    /\ robotsRaised' = IF g.raised THEN robotsRaised \cup {Origin(url0)} ELSE robotsRaised

\* time.sleep(args.rate): the clock may move on
Sleep == \E d \in {0, 1} : now + d <= MaxClock /\ now' = now + d

\* lines 211-223: which branch the response takes
IsHtml(resp) == is_content_html(resp.ct)

\* mutant: PDFs are parsed whether or not --include-pdfs is given
IsPdf_Always(resp) == ~IsHtml(resp) /\ is_content_pdf(resp.ct)

IsPdf(resp) == ~IsHtml(resp) /\ args.include_pdfs /\ is_content_pdf(resp.ct)

\* line 141 raises on one of the page's hrefs
HrefRaises(resp) ==
    /\ depth < args.depth
    /\ \E i \in 1..Len(resp.hrefs) : UrljoinRaises(resp.hrefs[i])

\* mutant: the URL is not marked
MarkSeen_Forgets(seen, u) == seen

\* line 194
MarkSeen(seen, u) == seen \cup {u}

\* line 193: url0 was seen before
SkipSeen ==
    /\ LoopOn
    /\ url0 \in seen_urls
    /\ queue' = Tail(queue)
    /\ last' = Last("seen", url0, depth, FALSE, FALSE)
    /\ UNCHANGED <<call, args, pc, seen_urls, pages, robots_cache, emails_best, results,
                   now, written, fetchLog, robotsLoads, robotsRaised, hitLog>>

\* lines 196-197: robots.txt disallows url0
RobotsDeny ==
    /\ LoopOn
    /\ url0 \notin seen_urls
    /\ \E g \in Gate :
        /\ ~g.ok
        /\ robots_cache' = g.cache
        /\ GateHistory(g)
    /\ seen_urls' = MarkSeen(seen_urls, url0)
    /\ queue' = Tail(queue)
    /\ last' = Last("robots", url0, depth, FALSE, FALSE)
    /\ UNCHANGED <<call, args, pc, pages, emails_best, results, now, written, fetchLog,
                   hitLog>>

\* lines 199-203: s.get raises
FetchError ==
    /\ LoopOn
    /\ url0 \notin seen_urls
    /\ \E g \in Gate :
        /\ g.ok
        /\ robots_cache' = g.cache
        /\ GateHistory(g)
    /\ TransportError \in Web(url0)
    /\ seen_urls' = MarkSeen(seen_urls, url0)
    /\ queue' = Tail(queue)
    /\ fetchLog' = Append(fetchLog, Head(queue))
    /\ last' = Last("error", url0, depth, TRUE, FALSE)
    /\ UNCHANGED <<call, args, pc, pages, emails_best, results, now, written, hitLog>>

\* lines 207-209: the status is not 200
BadStatus ==
    /\ LoopOn
    /\ url0 \notin seen_urls
    /\ \E g \in Gate :
        /\ g.ok
        /\ robots_cache' = g.cache
        /\ GateHistory(g)
    /\ \E resp \in Web(url0) :
        /\ resp.kind = "resp"
        /\ resp.status_code # 200
        /\ last' = LastResp("status", url0, depth, resp, <<>>)
    /\ Sleep
    /\ seen_urls' = MarkSeen(seen_urls, url0)
    /\ queue' = Tail(queue)
    /\ fetchLog' = Append(fetchLog, Head(queue))
    /\ UNCHANGED <<call, args, pc, pages, emails_best, results, written, hitLog>>

\* lines 221-223: neither HTML nor (with --include-pdfs) PDF
Unsupported ==
    /\ LoopOn
    /\ url0 \notin seen_urls
    /\ \E g \in Gate :
        /\ g.ok
        /\ robots_cache' = g.cache
        /\ GateHistory(g)
    /\ \E resp \in Web(url0) :
        /\ resp.kind = "resp"
        /\ resp.status_code = 200
        /\ ~IsHtml(resp) /\ ~IsPdf(resp)
        /\ last' = LastResp("unsupported", url0, depth, resp, <<>>)
    /\ Sleep
    /\ seen_urls' = MarkSeen(seen_urls, url0)
    /\ queue' = Tail(queue)
    /\ fetchLog' = Append(fetchLog, Head(queue))
    /\ UNCHANGED <<call, args, pc, pages, emails_best, results, written, hitLog>>

\* lines 140-142: urljoin raises ValueError, which nothing catches
LinkCrash ==
    /\ LoopOn
    /\ url0 \notin seen_urls
    /\ \E g \in Gate :
        /\ g.ok
        /\ robots_cache' = g.cache
        /\ GateHistory(g)
    /\ \E resp \in Web(url0) :
        /\ resp.kind = "resp"
        /\ resp.status_code = 200
        /\ IsHtml(resp)
        /\ HrefRaises(resp)
        /\ last' = LastResp("crash", url0, depth, resp, <<>>)
    /\ Sleep
    /\ seen_urls' = MarkSeen(seen_urls, url0)
    /\ queue' = Tail(queue)
    /\ fetchLog' = Append(fetchLog, Head(queue))
    /\ pc' = "crashed"
    /\ UNCHANGED <<call, args, pages, emails_best, results, written, hitLog>>

\* lines 230-235: whether an outbound link is kept
LinkAccepted(nxt, seen) ==
    /\ nxt \notin seen
    /\ nxt.scheme \in {"http", "https"}
    /\ args.external_follow \/ domain_allowed(nxt.netloc, allowed)

\* lines 228-235
filtered_links(out_links, seen, d) ==
    LET Keep(nxt) == LinkAccepted(nxt, seen)
    IN  IF d < args.depth THEN SelectSeq(out_links, Keep) ELSE <<>>

\* mutant: the links go to the front of the queue
Enqueue_Front(q, links, d) == [i \in 1..Len(links) |-> Item(links[i], d + 1)] \o q

\* lines 236-237
Enqueue(q, links, d) == q \o [i \in 1..Len(links) |-> Item(links[i], d + 1)]

\* mutant: a later hit overwrites the record
record_email_overwrite(best, rec) ==
    IF \E i \in 1..Len(best) : best[i].value = rec.value
    THEN [i \in 1..Len(best) |->
             IF best[i].value = rec.value THEN rec ELSE best[i]]
    ELSE Append(best, rec)

\* lines 250-251
record_email(best, rec) ==
    IF \E i \in 1..Len(best) : best[i].value = rec.value THEN best
    ELSE Append(best, rec)

RECURSIVE RecordEmails(_, _)
RecordEmails(best, recs) ==
    IF recs = <<>> THEN best
    ELSE RecordEmails(record_email(best, Head(recs)), Tail(recs))

\* lines 225-264: an HTML or PDF page is counted, its links are enqueued and
\* its hits recorded
ProcessPage ==
    /\ LoopOn
    /\ url0 \notin seen_urls
    /\ \E g \in Gate :
        /\ g.ok
        /\ robots_cache' = g.cache
        /\ GateHistory(g)
    /\ Sleep
    /\ seen_urls' = MarkSeen(seen_urls, url0)
    /\ fetchLog' = Append(fetchLog, Head(queue))
    /\ pages' = pages + 1
    /\ \E resp \in Web(url0) :
        /\ resp.kind = "resp"
        /\ resp.status_code = 200
        /\ IsHtml(resp) \/ IsPdf(resp)
        /\ ~(IsHtml(resp) /\ HrefRaises(resp))
        /\ \E page \in IF IsHtml(resp)
                       THEN {handle_html(resp, depth, args.depth)}
                       ELSE {[title |-> PDF_TITLE, text |-> t, out_links |-> <<>>] :
                                t \in handle_pdf(resp)} :
            /\ queue' = Enqueue(Tail(queue),
                                filtered_links(page.out_links, seen_urls', depth),
                                depth)
            /\ \E eo \in Orders(extract_emails(page.text, allowed)) :
                LET recs == [i \in DOMAIN eo |->
                                EmailRec(eo[i], resp.url, page.title, page.text, now')]
                IN  /\ emails_best' = RecordEmails(emails_best, recs)
                    /\ hitLog' = hitLog \o recs
            /\ IF args.include_phones
               THEN \E po \in Orders(extract_phones(page.text)) :
                      results' = results \o
                          [i \in DOMAIN po |->
                              PhoneRec(po[i], resp.url, page.title, page.text, now')]
               ELSE results' = results
            /\ last' = LastResp(IF IsHtml(resp) THEN "html" ELSE "pdf", url0,
                                 depth, resp, page.out_links)
    /\ UNCHANGED <<call, args, pc, written>>

\* mutant: the "no_hits" test looks at the e-mails only
FinalResults_EmailsOnly(res, best, t) ==
    IF best = <<>> THEN Append(res, InfoRec(t)) ELSE res \o best

\* lines 266-279
FinalResults(res, best, t) ==
    IF res \o best = <<>> THEN <<InfoRec(t)>> ELSE res \o best

\* lines 266-279: the loop is over; the e-mail records join the results, or
\* the "no_hits" record is made
Finalize ==
    /\ pc = "loop"
    /\ ~LoopOn
    /\ results' = FinalResults(results, emails_best, now)
    /\ pc' = "write"
    /\ UNCHANGED <<call, args, queue, seen_urls, pages, robots_cache, emails_best, now,
                   written, fetchLog, robotsLoads, robotsRaised, hitLog, last>>

\* lines 281-288 and 292-293: the rows are written in sorted order; exit 0
WriteCsv ==
    /\ pc = "write"
    /\ written' = sorted(results)
    /\ pc' = "done"
    /\ UNCHANGED <<call, args, queue, seen_urls, pages, robots_cache, emails_best,
                   results, now, fetchLog, robotsLoads, robotsRaised, hitLog, last>>

\* lines 289-290: the file cannot be written; exit 2
WriteFails ==
    /\ pc = "write"
    /\ pc' = "failed"
    /\ UNCHANGED <<call, args, queue, seen_urls, pages, robots_cache, emails_best,
                   results, now, written, fetchLog, robotsLoads, robotsRaised,
                   hitLog, last>>

Next ==
    \/ SkipSeen
    \/ RobotsDeny
    \/ FetchError
    \/ BadStatus
    \/ Unsupported
    \/ LinkCrash
    \/ ProcessPage
    \/ Finalize
    \/ WriteCsv
    \/ WriteFails

Spec == Init /\ [][Next]_vars

\* the process runs on until it exits
FairSpec == Spec /\ WF_vars(Next)

(***************************************************************************)
(* The pure functions on their own: email_matches_allowed on every string  *)
(* of a small alphabet and every set of a few domains, normalize_email on  *)
(* every string of a small alphabet.                                       *)
(***************************************************************************)
Strings(alphabet, n) == UNION {[1..k -> alphabet] : k \in 0..n}

EXAMPLE_COM == <<"e", "x", "a", "m", "p", "l", "e", ".", "c", "o", "m">>
USER_MAIL_EXAMPLE_COM == <<"u", "s", "e", "r", "@", "m", "a", "i", "l", ".">> \o EXAMPLE_COM
USER_NOTEXAMPLE_COM == <<"u", "s", "e", "r", "@", "n", "o", "t">> \o EXAMPLE_COM

EmailInputs ==
    {Call("email_matches_allowed", e, S) :
        e \in Strings({"x", "X", "@", "."}, MaxEmailLen),
        S \in SUBSET {<<"x">>, <<"x", ".", "x">>, <<"x", "x">>}}
    \cup {Call("email_matches_allowed", e, {EXAMPLE_COM}) :
              e \in {USER_MAIL_EXAMPLE_COM, USER_NOTEXAMPLE_COM}}

CandidateInputs ==
    {Call("normalize_email", x, {}) :
        x \in Strings({"x", "X", "@", ".", " "}, MaxCandidateLen)}

\* the rest of the session stands still
Idle ==
    /\ args = [start_urls |-> <<>>, max_pages |-> 0, depth |-> 0,
               include_pdfs |-> FALSE, include_phones |-> FALSE,
               honor |-> FALSE, external_follow |-> FALSE]
    /\ pc = "idle"
    /\ queue = <<>>
    /\ seen_urls = {}
    /\ pages = 0
    /\ robots_cache = <<>>
    /\ emails_best = <<>>
    /\ results = <<>>
    /\ now = 0
    /\ written = <<>>
    /\ fetchLog = <<>>
    /\ robotsLoads = <<>>
    /\ robotsRaised = {}
    /\ hitLog = <<>>
    /\ last = Last("init", NoUrl, 0, FALSE, FALSE)

FnInit ==
    /\ call \in EmailInputs \cup CandidateInputs
    /\ Idle

CallEmailMatchesAllowed ==
    /\ call.fn = "email_matches_allowed"
    /\ ~call.done
    /\ call' = [call EXCEPT !.done = TRUE,
                            !.out = email_matches_allowed(call.arg, call.allowed)]
    /\ UNCHANGED <<args, pc, queue, seen_urls, pages, robots_cache, emails_best,
                   results, now, written, fetchLog, robotsLoads, robotsRaised,
                   hitLog, last>>

CallNormalizeEmail ==
    /\ call.fn = "normalize_email"
    /\ ~call.done
    /\ call' = [call EXCEPT !.done = TRUE, !.out = normalize_email(call.arg)]
    /\ UNCHANGED <<args, pc, queue, seen_urls, pages, robots_cache, emails_best,
                   results, now, written, fetchLog, robotsLoads, robotsRaised,
                   hitLog, last>>

FnNext ==
    \/ CallEmailMatchesAllowed
    \/ CallNormalizeEmail

FnSpec == FnInit /\ [][FnNext]_vars

(***************************************************************************)
(* Properties.                                                             *)
(***************************************************************************)
Range(seq) == {seq[i] : i \in 1..Len(seq)}
NoDup(seq) == \A i, j \in 1..Len(seq) : seq[i] = seq[j] => i = j
Fetched == [i \in 1..Len(fetchLog) |-> fetchLog[i].url]
Max0(n) == IF n < 0 THEN 0 ELSE n
Finalized == pc \in {"write", "done", "failed"}
OfType(recs, type) == SelectSeq(recs, LAMBDA r : r.type = type)

\* C1: at-most-once fetch.  In every step the visited set only grows, and
\* afterwards no URL occurs twice among the URLs s.get was called with, each
\* of which is in the visited set.
C1_AtMostOnceFetch ==
    [][/\ seen_urls \subseteq seen_urls'
       /\ NoDup(Fetched')
       /\ Range(Fetched') \subseteq seen_urls']_vars

\* C1 witness: a second copy of a URL already fetched was dequeued and
\* skipped.
C1_Witness ==
    /\ last.kind = "seen"
    /\ last.url \in Range(Fetched)

\* C2 as stated: the page counter is at most max_pages in every state of the
\* loop, never decreases, and nothing is fetched once it has reached max_pages.
C2_AsStated ==
    [][/\ pages <= args.max_pages
       /\ pages' <= args.max_pages
       /\ pages' >= pages
       /\ pages >= args.max_pages => fetchLog' = fetchLog]_vars

\* C2 amended: the page counter is at most max(max_pages, 0) (at most
\* max_pages whenever max_pages >= 0), never decreases, and nothing is fetched
\* once it has reached max_pages.
C2_BudgetBound ==
    [][/\ pages <= Max0(args.max_pages)
       /\ pages' <= Max0(args.max_pages)
       /\ pages' >= pages
       /\ pages >= args.max_pages => fetchLog' = fetchLog]_vars

\* C2 witness: the budget, not the queue, ended the crawl.
C2_Witness ==
    /\ pc = "write"
    /\ args.max_pages > 0
    /\ pages = args.max_pages
    /\ queue # <<>>

\* C3 as stated: every fetched work item has depth at most --depth, and a
\* page processed at depth --depth enqueues nothing.
C3_AsStated ==
    [][/\ \A i \in 1..Len(fetchLog') : fetchLog'[i].depth <= args.depth
       /\ last'.kind \in {"html", "pdf"} /\ last' # last /\ last'.depth = args.depth
            => queue' = Tail(queue)]_vars

\* C3 amended: every fetched work item has depth at most max(--depth, 0)
\* (the seeds are fetched at depth 0 whatever --depth is), and a page
\* processed at a depth of --depth or more enqueues none of its links.
C3_DepthBound ==
    [][/\ \A i \in 1..Len(fetchLog') : fetchLog'[i].depth <= Max0(args.depth)
       /\ last'.kind \in {"html", "pdf"} /\ last' # last /\ last'.depth >= args.depth
            => queue' = Tail(queue)]_vars

\* C3 witness: a page with outbound links was processed at the maximum depth,
\* below the seeds.
C3_Witness ==
    /\ last.kind = "html"
    /\ last.url = URL_D
    /\ last.depth = args.depth
    /\ last.depth > 0

\* the record built for the first hit of an e-mail, in processing order
FirstHit(email) ==
    hitLog[CHOOSE i \in 1..Len(hitLog) :
              /\ hitLog[i].value = email
              /\ \A j \in 1..(i - 1) : hitLog[j].value # email]

FirstHitsOnly(recs) ==
    /\ \A i \in 1..Len(recs) :
          /\ \E j \in 1..Len(hitLog) : hitLog[j].value = recs[i].value
          /\ recs[i] = FirstHit(recs[i].value)
    /\ \A i, j \in 1..Len(recs) : recs[i].value = recs[j].value => i = j
    /\ \A j \in 1..Len(hitLog) : \E i \in 1..Len(recs) : recs[i].value = hitLog[j].value

\* C4: first seen wins.  The record kept for an e-mail is the one built from
\* the first page it was extracted on, there is one record per e-mail, and
\* these are the e-mail records of the final results and of the output.
C4_FirstSeenWins ==
    /\ FirstHitsOnly(emails_best)
    /\ Finalized => FirstHitsOnly(OfType(results, "email"))
    /\ pc = "done" => FirstHitsOnly(OfType(written, "email"))

\* C4 witness: an e-mail was extracted on two pages and the output is
\* written.
C4_Witness ==
    /\ pc = "done"
    /\ \E i, j \in 1..Len(hitLog) :
          /\ i < j
          /\ hitLog[i].value = hitLog[j].value
          /\ hitLog[i].source_url # hitLog[j].source_url
          /\ hitLog[i].first_seen # hitLog[j].first_seen

InScope(dom) == \E d \in allowed : dom = d \/ endswith(dom, <<".">> \o d)

\* C5: every e-mail record kept, in the final results or written has a
\* domain, the part of its value after the first "@", that is an allowed
\* domain or ends with "." and an allowed domain.
C5_RecordedEmailScoping ==
    \A r \in Range(emails_best) \cup Range(OfType(results, "email"))
                \cup Range(OfType(written, "email")) :
        /\ r.domain = AfterAt(r.value)
        /\ InScope(r.domain)

\* C5 witness: with external follow, an e-mail record from a page that an
\* out-of-scope URL redirected to is written, and a page with an
\* out-of-scope candidate was processed.
C5_Witness ==
    /\ pc = "done"
    /\ args.external_follow
    /\ ~domain_allowed(URL_D.netloc, allowed)
    /\ \E r \in Range(written) : r.type = "email" /\ r.source_url = URL_DF
    /\ URL_A \in Range(Fetched) /\ pages >= 2

\* the "no_hits" record is there exactly when nothing was recorded, and then
\* it is alone
SentinelRule(recs) ==
    LET infos == OfType(recs, "info")
        hits == OfType(recs, "email") \o OfType(recs, "phone")
    IN  /\ recs # <<>>
        /\ Len(infos) <= 1
        /\ Len(infos) = 1 <=> hits = <<>>
        /\ Len(infos) = 1 <=> emails_best = <<>> /\ OfType(results, "phone") = <<>>
        /\ \A i \in 1..Len(infos) : infos[i].value = NO_HITS
        /\ Len(recs) = Len(infos) + Len(hits)

\* C6: empty-result sentinel.  Once the results are assembled, and in the
\* output, there is exactly one "info" record with value "no_hits" if and
\* only if no e-mail and no phone was recorded; the results are never empty
\* and the sentinel never stands beside an e-mail or phone record.
C6_EmptyResultSentinel ==
    /\ Finalized => SentinelRule(results)
    /\ pc = "done" => SentinelRule(written)

\* C6 witness: pages were counted, nothing was found, and the output is the
\* sentinel alone.
C6_Witness ==
    /\ pc = "done"
    /\ pages > 0
    /\ Len(written) = 1
    /\ written[1].type = "info"

Count(seq, r) == Cardinality({i \in 1..Len(seq) : seq[i] = r})

\* C7: output ordering.  The rows written are the assembled results, e-mail
\* rows first, then phone rows, then the info row, and within a type in
\* ascending order of value.
C7_OutputOrdering ==
    pc = "done" =>
        /\ \A i, j \in 1..Len(written) :
              i < j =>
                /\ TypeRank(written[i].type) <= TypeRank(written[j].type)
                /\ written[i].type = written[j].type
                     => ~StrLess(written[j].value, written[i].value)
        /\ Len(written) = Len(results)
        /\ \A r \in Range(results) : Count(written, r) = Count(results, r)

\* C7 witness: phones were collected during the crawl and e-mails appended
\* after it, out of value order, and the output is written.
C7_Witness ==
    /\ pc = "done"
    /\ results[1].type = "phone"
    /\ \E i, j \in 1..Len(results) :
          /\ i < j
          /\ results[i].type = "email" /\ results[j].type = "email"
          /\ StrLess(results[j].value, results[i].value)
    /\ \E i, j \in 1..Len(results) :
          /\ i < j
          /\ results[i].type = "phone" /\ results[j].type = "phone"
          /\ StrLess(results[j].value, results[i].value)

\* the URLs the robots check reads robots.txt for
Checkable(u) == u.scheme \in {"http", "https"} /\ u.netloc # <<>>

\* C8: exactly-once robots load.  With robots enforcement on, after every
\* step no origin's robots.txt has been read twice, the cache holds exactly
\* the origins read (also those whose read raised), the origin of every
\* URL checked so far is cached, a cached origin is not read again and a
\* cached entry does not change.
C8_RobotsLoadedOnce ==
    [][args.honor =>
        /\ NoDup(robotsLoads')
        /\ DOMAIN robots_cache' = Range(robotsLoads')
        /\ robotsRaised' \subseteq DOMAIN robots_cache'
        /\ \A u \in seen_urls' : Checkable(u) => Origin(u) \in DOMAIN robots_cache'
        /\ \A o \in DOMAIN robots_cache :
              /\ o \in DOMAIN robots_cache'
              /\ robots_cache'[o] = robots_cache[o]
        /\ \A i \in 1..Len(robotsLoads') :
              i > Len(robotsLoads) => robotsLoads'[i] \notin DOMAIN robots_cache]_vars

\* C8 witness: two URLs of one origin were checked, the first one's
\* robots.txt read raised, and the second was decided from the cache.
C8_Witness ==
    /\ args.honor
    /\ \E u, v \in seen_urls :
          /\ u # v
          /\ Origin(u) = Origin(v)
          /\ Origin(u) \in robotsRaised
    /\ Len(robotsLoads) = Cardinality(DOMAIN robots_cache)

\* C9: robots fail-open.  A URL is never skipped by the robots check when
\* the read of its origin's robots.txt raised.
C9_RobotsFailOpen ==
    last.kind = "robots" => Origin(last.url) \notin robotsRaised

Phase == CASE pc = "loop" -> 0 [] pc = "write" -> 1 [] OTHER -> 2

\* every step brings the end nearer: it marks a URL visited, or shortens the
\* queue, or moves on from the loop to the output
Progress ==
    \/ seen_urls \subseteq seen_urls' /\ seen_urls' # seen_urls
    \/ seen_urls' = seen_urls /\ Len(queue') < Len(queue)
    \/ Phase' > Phase

\* C10: termination.  The session does not stop before the output is
\* written (or its write fails), every step of it brings that nearer, and
\* the loop is left only with the queue empty or the page budget used up.
C10_Termination ==
    /\ [](pc \in {"done", "failed"} \/ ENABLED Next)
    /\ [][Progress]_vars
    /\ [](Finalized => queue = <<>> \/ pages >= args.max_pages)

\* a loop iteration has just been made
Stepped == last' # last

\* C11: politeness throttle.  After every s.get that reached the network (the
\* URL has a host), whatever came of it, time.sleep follows before the next
\* item is dequeued.
C11_PolitenessThrottle ==
    last.fetched /\ Checkable(last.url) => last.slept

\* C12: status handling.  A response is discarded on status grounds only
\* when its status is outside 200..299.
C12_StatusHandling ==
    last.kind = "status" => last.status \notin 200..299

\* the response takes neither the HTML nor the PDF branch
UnsupportedType(ct) ==
    /\ ct \notin {"text/html", "text/html; charset=utf-8", "application/xhtml+xml"}
    /\ ~(args.include_pdfs /\ ct \in {"application/pdf", "application/x-pdf", "x/pdf"})

\* C13: unsupported content.  A step whose 200 response is neither HTML nor
\* (with --include-pdfs) PDF leaves the page counter and the e-mail and phone
\* collections as they were and enqueues nothing (the queue only loses the
\* item dequeued), while the URL is in the visited set and among the URLs
\* fetched, once.
C13_UnsupportedContent ==
    [][Stepped /\ last'.status = 200 /\ UnsupportedType(last'.ct) =>
        /\ last'.kind = "unsupported"
        /\ pages' = pages
        /\ queue' = Tail(queue)
        /\ emails_best' = emails_best
        /\ results' = results
        /\ hitLog' = hitLog
        /\ last'.url \in seen_urls'
        /\ Cardinality({i \in 1..Len(fetchLog') : fetchLog'[i].url = last'.url}) = 1]_vars

\* C13 witness: a PDF answered while PDF parsing is off, with items left in
\* the queue.
C13_Witness ==
    /\ last.kind = "unsupported"
    /\ last.ct = "application/pdf"
    /\ ~args.include_pdfs
    /\ queue # <<>>
    /\ pc = "loop"

\* C14: malformed link tolerance.  No href of a fetched page aborts the
\* session.
C14_MalformedLinkTolerance == pc # "crashed"

\* C15: the claimed meaning of email_matches_allowed: e has an "@", and what
\* follows its first "@", lowercased, is a member of S or ends with "." and
\* a member of S
ClaimedMatch(e, S) ==
    \E i \in 1..Len(e) :
        /\ e[i] = "@"
        /\ \A j \in 1..(i - 1) : e[j] # "@"
        /\ LET dom == [k \in 1..(Len(e) - i) |-> LowerChar(e[i + k])]
           IN  \E d \in S :
                 \/ dom = d
                 \/ \E n \in 1..Len(dom) :
                       /\ dom[n] = "."
                       /\ Len(dom) - n = Len(d)
                       /\ \A k \in 1..Len(d) : dom[n + k] = d[k]

\* C15: domain scoping predicate.  email_matches_allowed(e, S) is true
\* exactly when e has an "@" and the part after its first "@", lowercased,
\* is a member of S or ends with "." and a member of S; user@mail.example.com
\* is accepted and user@notexample.com rejected for S = {example.com}.
C15_DomainScopingPredicate ==
    call.fn = "email_matches_allowed" /\ call.done =>
        /\ call.out <=> ClaimedMatch(call.arg, call.allowed)
        /\ call.arg = USER_MAIL_EXAMPLE_COM => call.out
        /\ call.arg = USER_NOTEXAMPLE_COM => ~call.out

\* C15 witness: a subdomain address with an upper-case host was accepted.
C15_Witness ==
    /\ call.fn = "email_matches_allowed"
    /\ call.done
    /\ call.out
    /\ call.arg = <<"x", "@", "X", ".", "x">>
    /\ call.allowed = {<<"x">>}

\* C16: normalization idempotence.  For every string x the e-mail pattern
\* can match, normalize_email of normalize_email(x) is normalize_email(x).
C16_NormalizationIdempotence ==
    call.fn = "normalize_email" /\ call.done /\ EmailReMatch(call.arg) =>
        normalize_email(call.out) = call.out

\* C16 witness: a matched candidate that normalization changed at its front
\* and in its case.
C16_Witness ==
    /\ call.fn = "normalize_email"
    /\ call.done
    /\ EmailReMatch(call.arg)
    /\ call.arg = <<".", "X", "@", "x", ".", "x", "X">>
    /\ call.out = <<"x", "@", "x", ".", "x", "x">>

\* urlparse(u).hostname: the netloc without userinfo and port, lowercased
Hostname(netloc) ==
    LET ats == {i \in 1..Len(netloc) : netloc[i] = "@"}
        from == IF ats = {} THEN 1
                ELSE 1 + CHOOSE i \in ats : \A j \in ats : j <= i
        hostport == SubSeq(netloc, from, Len(netloc))
        colons == {i \in 1..Len(hostport) : hostport[i] = ":"}
        to == IF colons = {} THEN Len(hostport)
              ELSE (CHOOSE i \in colons : \A j \in colons : i <= j) - 1
    IN  lower(SubSeq(hostport, 1, to))

\* the links C17 says are enqueued, given the visited set
ClaimedAccept(nxt, seen) ==
    /\ nxt \notin seen
    /\ nxt.scheme \in {"http", "https"}
    /\ args.external_follow \/ InScope(Hostname(nxt.netloc))

\* C17: link acceptance.  For a counted page at depth below the maximum, an
\* outbound link is enqueued at depth+1 exactly when it is not visited yet,
\* its scheme is http or https, and external-follow is on or its hostname
\* (without port and userinfo) is a scope entry or a subdomain of one; so
\* without external-follow every work item of depth >= 1 has an in-scope
\* host.
C17_LinkAcceptance ==
    /\ [][pages' = pages + 1 /\ last'.depth < args.depth =>
            LET Keep(nxt) == ClaimedAccept(nxt, seen_urls')
                kept == SelectSeq(last'.links, Keep)
            IN  queue' = Tail(queue) \o
                    [i \in 1..Len(kept) |-> Item(kept[i], last'.depth + 1)]]_vars
    /\ [](~args.external_follow =>
            \A i \in 1..Len(queue) :
                queue[i].depth >= 1 => InScope(Hostname(queue[i].url.netloc)))

\* the cached ruleset of u's origin answers "disallowed" for u
Disallowed(cache, u) ==
    /\ Origin(u) \in DOMAIN cache
    /\ LET rp == cache[Origin(u)]
       IN  \/ rp.disallow_all
           \/ ~rp.allow_all /\ (~rp.last_checked \/ u.path \in rp.disallow)

\* C18: robots denial.  With robots enforcement on, a URL that the cached
\* ruleset of its origin disallows is never fetched: the step that dequeues
\* it marks it visited and leaves the page counter, the rest of the queue
\* and the results as they were.  With enforcement off, every dequeued URL
\* that was not visited yet is fetched and the robots cache stays empty.
C18_RobotsDenial ==
    /\ [](args.honor =>
            \A i \in 1..Len(fetchLog) : ~Disallowed(robots_cache, fetchLog[i].url))
    /\ [][LoopOn /\ url0 \notin seen_urls /\ args.honor
             /\ Disallowed(robots_cache', url0) =>
            /\ url0 \in seen_urls'
            /\ fetchLog' = fetchLog
            /\ pages' = pages
            /\ queue' = Tail(queue)
            /\ results' = results
            /\ emails_best' = emails_best]_vars
    /\ [](~args.honor => robots_cache = <<>>)
    /\ [][LoopOn /\ url0 \notin seen_urls /\ ~args.honor =>
            fetchLog' = Append(fetchLog, Head(queue))]_vars

\* C18 witness: a URL was turned away by a ruleset that was read and parsed,
\* while other work was waiting in the queue.
C18_Witness ==
    /\ args.honor
    /\ last.kind = "robots"
    /\ last.url = URL_B
    /\ Disallowed(robots_cache, URL_B)
    /\ robots_cache[Origin(URL_B)].last_checked
    /\ queue # <<>>
    /\ fetchLog # <<>>

\* C19: breadth-first order.  The depths of the work items dequeued over a
\* session never decrease, and at every moment the depths of the queued
\* items never decrease from front to back and differ by at most 1 between
\* front and back.
C19_BreadthFirstOrder ==
    /\ [][last' # last /\ last.kind # "init" => last'.depth >= last.depth]_vars
    /\ [][LoopOn /\ last' # last => last'.depth = depth]_vars
    /\ [](\A i, j \in 1..Len(queue) : i < j => queue[i].depth <= queue[j].depth)
    /\ [](queue # <<>> => queue[Len(queue)].depth - Head(queue).depth <= 1)

\* C19 witness: after a page was processed the queue holds work of two
\* depths, the shallower in front.
C19_Witness ==
    /\ pc = "loop"
    /\ last.kind = "html"
    /\ Len(queue) >= 3
    /\ Head(queue).depth = last.depth
    /\ queue[Len(queue)].depth = last.depth + 1

\* C20: source-type labelling.  Every e-mail or phone record has source_type
\* "pdf" exactly when its page went through the PDF branch and "html"
\* exactly when it went through the HTML branch, whatever the title of the
\* HTML page (the text "(PDF)" included).
C20_SourceTypeLabelling ==
    [][pages' = pages + 1 =>
        /\ \A i \in (Len(hitLog) + 1)..Len(hitLog') :
              hitLog'[i].source_type = last'.kind
        /\ \A i \in (Len(emails_best) + 1)..Len(emails_best') :
              emails_best'[i].source_type = last'.kind
        /\ \A i \in (Len(results) + 1)..Len(results') :
              results'[i].source_type = last'.kind]_vars

=============================================================================
